---------------------------- MODULE Spec2Model ----------------------------
(***************************************************************************)
(* A model of aarwyn-chain: the Merkle tree (src/src/merkle_trie.rs) and   *)
(* the block with its proof-of-work search (src/src/block.rs).             *)
(*                                                                         *)
(* Byte strings are sequences of integers.  SHA-256 is modelled in the two *)
(* ways its callers use it:                                                *)
(*   - where only equality of digests matters (the tree and its proofs),   *)
(*     as an injective constructor, hash(data): the data between two       *)
(*     marks that are no byte values, so that equal digests have equal     *)
(*     preimages and a concatenation of digests splits in one way only;    *)
(*   - where the bits of the digest matter (the header hash that mine      *)
(*     tests), as a function from byte strings to 32-byte digests that is  *)
(*     fixed but unknown: the variable sha holds the part of it computed   *)
(*     so far, and a first computation on an input draws its digest from   *)
(*     DigestSamples.                                                      *)
(***************************************************************************)
EXTENDS Integers, Sequences, FiniteSets, TLC

VARIABLES
    records,   \* the caller's record batch, given to MerkleTree::new
    tree,      \* Option<MerkleTree>: <<>> or <<[root, nodes, leaf_count]>>
    block,     \* Option<Block>: <<>> or <<[header, transactions, merkle_tree]>>
    sha,       \* the header digests computed so far: byte string -> digest
    pc,        \* "idle" | "mine" (inside the loop of Block::mine) | "aborted" (panicked)
    frame,     \* the locals of the running Block::mine call, and its ghost counters
    result     \* what the last call returned, or the panic that ended it

vars == <<records, tree, block, sha, pc, frame, result>>

----------------------------------------------------------------------------
(* Bounds of the model and constants of the program *)

\* Longest record batch given to MerkleTree::new.
MaxLeaves == 5

\* Longest transaction batch given to Block::new.
MaxTxs == 2

\* The largest value of header.nonce (u64::MAX in the source), scaled so that
\* the search can exhaust the nonce space.
NonceMax == 2

\* Bytes of a SHA-256 digest.
HashLen == 32

\* header.version as Block::new sets it.
Version == 1

\* The records of the batches given to MerkleTree::new: "a", "b", "c", "d".
RecordValues == {<<97>>, <<98>>, <<99>>, <<100>>}

\* The transactions of the batches given to Block::new.
TxRecords == {<<97>>, <<98>>}

\* The predecessor hashes given to Block::new.
PrevHashes == {<<0, 0>>, <<171, 205>>}

\* The difficulties given to Block::mine.
Difficulties == {0, 3, 8, 11, 256, 257, 264}

\* The numbers of leading zero bits of the digests the header hash may have.
LeadingZeroSamples == {0, 2, 3, 10, 256}

RECURSIVE Pow2(_)
Pow2(n) == IF n = 0 THEN 1 ELSE 2 * Pow2(n - 1)

\* All sequences over S of length 0..n.
RECURSIVE SeqsUpTo(_, _)
SeqsUpTo(S, n) ==
    IF n = 0 THEN {<<>>}
    ELSE LET shorter == SeqsUpTo(S, n - 1)
         IN  shorter \cup {Append(s, x) : s \in {t \in shorter : Len(t) = n - 1}, x \in S}

Batches == SeqsUpTo(RecordValues, MaxLeaves)
TxBatches == SeqsUpTo(TxRecords, MaxTxs)

----------------------------------------------------------------------------
(* merkle_trie.rs *)

\* MerkleTree::hash, where only equality of digests matters.
hash(data) == <<-1>> \o data \o <<-2>>

\* The leaf level: one digest per item, in order.
LeafLevel(data) == [i \in 1..Len(data) |-> hash(data[i])]

\* The node pushed for the pair starting at 0-based index i of last_level.
ParentDuplicateLast(last_level, i) ==
    IF i + 1 < Len(last_level)
    THEN hash(last_level[i + 1] \o last_level[i + 2])
    ELSE hash(last_level[i + 1] \o last_level[i + 1])

ParentNode(last_level, i) ==
    IF i + 1 < Len(last_level)
    THEN hash(last_level[i + 1] \o last_level[i + 2])
    ELSE last_level[i + 1]

\* for i in (0..last_level.len()).step_by(2)
NewLevel(last_level) ==
    [j \in 1..((Len(last_level) + 1) \div 2) |-> ParentNode(last_level, 2 * (j - 1))]

\* while nodes.last().unwrap().len() > 1 { ... nodes.push(new_level) }
RECURSIVE BuildLevels(_)
BuildLevels(nodes) ==
    IF Len(nodes[Len(nodes)]) > 1
    THEN BuildLevels(Append(nodes, NewLevel(nodes[Len(nodes)])))
    ELSE nodes

\* nodes.into_iter().flatten().collect()
RECURSIVE Flatten(_)
Flatten(levels) ==
    IF levels = <<>> THEN <<>> ELSE Head(levels) \o Flatten(Tail(levels))

\* MerkleTree::new on a non-empty batch.
MerkleTree_new(data) ==
    LET nodes == BuildLevels(<<LeafLevel(data)>>)
    IN  [root       |-> nodes[Len(nodes)][1],
         nodes      |-> Flatten(nodes),
         leaf_count |-> Len(data)]

\* MerkleTree::root_hash
root_hash(t) == t.root

\* MerkleProof::verify on a proof [proof, leaf_hash, root_hash]; a step of
\* proof is <<sibling, is_right>>.
RECURSIVE Replay(_, _)
Replay(current_hash, steps) ==
    IF steps = <<>> THEN current_hash
    ELSE LET sibling  == Head(steps)[1]
             is_right == Head(steps)[2]
             combined == IF is_right THEN current_hash \o sibling
                                     ELSE sibling \o current_hash
         IN  Replay(hash(combined), Tail(steps))

verify(p, data) ==
    LET leaf_hash == hash(data)
    IN  IF leaf_hash # p.leaf_hash THEN FALSE
        ELSE Replay(leaf_hash, p.proof) = p.root_hash

----------------------------------------------------------------------------
(* Calls and their outcomes *)

NoResult == [op |-> "none", status |-> "none"]

Returned(op, arg, value) == [op |-> op, status |-> "ok", arg |-> arg, value |-> value]

Panicked(op, msg, arg) == [op |-> op, status |-> "panic", msg |-> msg, arg |-> arg]

Init ==
    /\ records = <<>>
    /\ tree = <<>>
    /\ block = <<>>
    /\ sha = <<>>
    /\ pc = "idle"
    /\ frame = <<>>
    /\ result = NoResult

\* let tree = MerkleTree::new(&data)
NewTree ==
    /\ pc = "idle" /\ tree = <<>> /\ block = <<>>
    /\ \E batch \in Batches :
         /\ records' = batch
         /\ IF Len(batch) = 0
            THEN /\ result' = Panicked("MerkleTree::new",
                                       "Cannot create Merkle tree from empty data", batch)
                 /\ pc' = "aborted"
                 /\ UNCHANGED tree
            ELSE /\ tree' = <<MerkleTree_new(batch)>>
                 /\ result' = Returned("MerkleTree::new", batch, "tree")
                 /\ UNCHANGED pc
    /\ UNCHANGED <<block, sha, frame>>

\* tree.root_hash()
RootHash ==
    /\ pc = "idle" /\ tree # <<>>
    /\ result' = Returned("root_hash", <<>>, root_hash(tree[1]))
    /\ UNCHANGED <<records, tree, block, sha, pc, frame>>

\* The index test at the head of generate_proof.
IndexOutOfBoundsOffByOne(t, leaf_index) == leaf_index > t.leaf_count

IndexOutOfBounds(t, leaf_index) == leaf_index >= t.leaf_count

\* The loop of generate_proof, from `level` on.  self.nodes is the flattened
\* list, so level_nodes = self.nodes[level] is one digest of HashLen bytes and
\* what is pushed is the byte sibling_idx of node `level`, with is_right.
\* Every index it reads is in range: the loop itself never panics.
RECURSIVE ProofLoop(_, _, _, _)
ProofLoop(t, level, index, proof) ==
    IF level >= Len(t.nodes) - 1 THEN proof
    ELSE LET is_right    == index % 2 = 1
             sibling_idx == IF is_right THEN index - 1 ELSE index + 1
             pushed      == IF sibling_idx < HashLen
                            THEN Append(proof, <<[node |-> level, byte |-> sibling_idx],
                                                 is_right>>)
                            ELSE proof
         IN  ProofLoop(t, level + 1, index \div 2, pushed)

\* tree.generate_proof(leaf_index).  The construction of the MerkleProof is
\* commented out and the function ends in todo!(): the local proof is
\* dropped, no proof is built and the call panics.
generate_proof(t, leaf_index) ==
    IF IndexOutOfBounds(t, leaf_index)
    THEN Panicked("generate_proof", "Leaf index out of bounds", leaf_index)
    ELSE LET proof == ProofLoop(t, 0, leaf_index, <<>>)
         IN  Panicked("generate_proof", "not yet implemented", leaf_index)

GenerateProof ==
    /\ pc = "idle" /\ tree # <<>>
    /\ \E leaf_index \in 0..(MaxLeaves + 1) :
         /\ result' = generate_proof(tree[1], leaf_index)
         /\ pc' = IF result'.status = "panic" THEN "aborted" ELSE pc
    /\ UNCHANGED <<records, tree, block, sha, frame>>

----------------------------------------------------------------------------
(* block.rs *)

\* u32::to_le_bytes, u64::to_le_bytes: n bytes, least significant first.
RECURSIVE to_le_bytes(_, _)
to_le_bytes(x, n) ==
    IF n = 0 THEN <<>> ELSE <<x % 256>> \o to_le_bytes(x \div 256, n - 1)

\* Block::new on a non-empty batch.
Block_newFirstLeafAsRoot(transactions, prev_block_hash) ==
    LET merkle_tree == MerkleTree_new(transactions)
    IN  [header       |-> [version         |-> Version,
                           prev_block_hash |-> prev_block_hash,
                           merkle_root     |-> merkle_tree.nodes[1],
                           nonce           |-> 0],
         transactions |-> transactions,
         merkle_tree  |-> merkle_tree]

Block_new(transactions, prev_block_hash) ==
    LET merkle_tree == MerkleTree_new(transactions)
    IN  [header       |-> [version         |-> Version,
                           prev_block_hash |-> prev_block_hash,
                           merkle_root     |-> root_hash(merkle_tree),
                           nonce           |-> 0],
         transactions |-> transactions,
         merkle_tree  |-> merkle_tree]

\* Block::serialize_header
serialize_header(b) ==
    to_le_bytes(b.header.version, 4)
        \o b.header.prev_block_hash
        \o b.header.merkle_root
        \o to_le_bytes(b.header.nonce, 8)

\* A 32-byte digest with exactly k leading zero bits (all zero for k = 256):
\* the bits after the first set bit are all set.
DigestWithLeadingZeros(k) ==
    [i \in 1..HashLen |->
        IF i - 1 < k \div 8 THEN 0
        ELSE IF i - 1 = k \div 8 THEN Pow2(8 - (k % 8)) - 1
        ELSE 255]

DigestSamples == {DigestWithLeadingZeros(k) : k \in LeadingZeroSamples}

\* MerkleTree::hash, where the bits of the digest matter: the digest of
\* `data` if it was computed before, any sample digest otherwise.
Sha256Outcomes(data) ==
    IF \E i \in 1..Len(sha) : sha[i][1] = data
    THEN {sha[i][2] : i \in {j \in 1..Len(sha) : sha[j][1] = data}}
    ELSE DigestSamples

Computed(data, digest) ==
    IF \E i \in 1..Len(sha) : sha[i][1] = data THEN sha ELSE Append(sha, <<data, digest>>)

\* a & b on bytes.
RECURSIVE BitAnd(_, _)
BitAnd(a, b) ==
    IF a = 0 \/ b = 0 THEN 0
    ELSE (a % 2) * (b % 2) + 2 * BitAnd(a \div 2, b \div 2)

\* !m on a byte.
BitNot(m) == 255 - m

\* let mask = if remainder > 0 { 0xff >> remainder } else { 0 };
Mask(remainder) == IF remainder > 0 THEN 255 \div Pow2(remainder) ELSE 0

\* hash.iter().take(n).all(|&b| b == 0)
LeadingBytesZero(h, n) ==
    \A i \in 1..(IF n < Len(h) THEN n ELSE Len(h)) : h[i] = 0

\* The right operand of && in meets_difficulty: "true", "false", or "panic"
\* when hash[difficulty / 8] is out of range.
PartialByteAlwaysTested(h, difficulty, remainder, mask) ==
    IF difficulty \div 8 >= Len(h) THEN "panic"
    ELSE IF BitAnd(h[difficulty \div 8 + 1], BitNot(mask)) = 0 THEN "true"
    ELSE "false"

PartialByteClear(h, difficulty, remainder, mask) ==
    IF remainder = 0 THEN "true"
    ELSE IF difficulty \div 8 >= Len(h) THEN "panic"
    ELSE IF BitAnd(h[difficulty \div 8 + 1], BitNot(mask)) = 0 THEN "true"
    ELSE "false"

\* meets_difficulty; && evaluates its right operand only if the left is true.
MeetsDifficulty(h, difficulty, remainder, mask) ==
    IF ~LeadingBytesZero(h, difficulty \div 8) THEN "false"
    ELSE PartialByteClear(h, difficulty, remainder, mask)

\* self.header.nonce += 1 on a u64: at the maximum the addition panics where
\* overflow checks are compiled in and wraps to 0 where they are not.
NonceIncrement(nonce) ==
    IF nonce = NonceMax
    THEN {[overflow |-> TRUE, nonce |-> nonce], [overflow |-> FALSE, nonce |-> 0]}
    ELSE {[overflow |-> FALSE, nonce |-> nonce + 1]}

\* The ghost count of hashes stops at HashCountCap: by then every nonce was
\* tried and rejected, the loop repeats itself and never returns.
HashCountCap == NonceMax + 2

CountHash(n) == IF n < HashCountCap THEN n + 1 ELSE n

\* The block with its nonce replaced.
WithNonce(b, nonce) == [b EXCEPT !.header.nonce = nonce]

\* let block = Block::new(transactions, prev_block_hash)
NewBlock ==
    /\ pc = "idle" /\ tree = <<>> /\ block = <<>>
    /\ \E transactions \in TxBatches, prev_block_hash \in PrevHashes :
         IF Len(transactions) = 0
         THEN /\ result' = Panicked("Block::new",
                                    "Cannot create Merkle tree from empty data",
                                    transactions)
              /\ pc' = "aborted"
              /\ UNCHANGED block
         ELSE /\ block' = <<Block_new(transactions, prev_block_hash)>>
              /\ result' = Returned("Block::new", transactions, "block")
              /\ UNCHANGED pc
    /\ UNCHANGED <<records, tree, sha, frame>>

\* block.hash()
Hash ==
    /\ pc = "idle" /\ block # <<>>
    /\ LET serialized == serialize_header(block[1])
       IN  \E h \in Sha256Outcomes(serialized) :
             /\ sha' = Computed(serialized, h)
             /\ result' = Returned("hash", <<>>, h)
    /\ UNCHANGED <<records, tree, block, pc, frame>>

\* block.merkle_root(), block.prev_block_hash(), block.nonce(), block.transactions()
Accessor ==
    /\ pc = "idle" /\ block # <<>>
    /\ result' \in {Returned("merkle_root", <<>>, block[1].header.merkle_root),
                    Returned("prev_block_hash", <<>>, block[1].header.prev_block_hash),
                    Returned("nonce", <<>>, block[1].header.nonce),
                    Returned("transactions", <<>>, block[1].transactions)}
    /\ UNCHANGED <<records, tree, block, sha, pc, frame>>

\* block.mine(difficulty): the statements before the loop.  start and hashes
\* are ghosts: the nonce at the call and the hashes computed by the call.
MineCall ==
    /\ pc = "idle" /\ block # <<>>
    /\ \E difficulty \in Difficulties :
         frame' = <<[difficulty |-> difficulty,
                     remainder  |-> difficulty % 8,
                     mask       |-> Mask(difficulty % 8),
                     start      |-> block[1].header.nonce,
                     hashes     |-> 0]>>
    /\ pc' = "mine"
    /\ result' = NoResult
    /\ UNCHANGED <<records, tree, block, sha>>

\* One iteration of the loop of Block::mine.
MineLoop ==
    /\ pc = "mine"
    /\ LET f == frame[1]
           serialized == serialize_header(block[1])
       IN  \E h \in Sha256Outcomes(serialized) :
             /\ sha' = Computed(serialized, h)
             /\ LET meets == MeetsDifficulty(h, f.difficulty, f.remainder, f.mask)
                    g == [f EXCEPT !.hashes = CountHash(@)]
                IN  CASE meets = "true" ->
                           /\ pc' = "idle"
                           /\ frame' = <<>>
                           /\ result' = Returned("mine", g, "unit")
                           /\ UNCHANGED block
                      [] meets = "panic" ->
                           /\ pc' = "aborted"
                           /\ frame' = <<>>
                           /\ result' = Panicked("mine", "index out of bounds", g)
                           /\ UNCHANGED block
                      [] meets = "false" ->
                           \E inc \in NonceIncrement(block[1].header.nonce) :
                             IF inc.overflow
                             THEN /\ pc' = "aborted"
                                  /\ frame' = <<>>
                                  /\ result' = Panicked("mine",
                                                  "attempt to add with overflow", g)
                                  /\ UNCHANGED block
                             ELSE /\ block' = <<WithNonce(block[1], inc.nonce)>>
                                  /\ frame' = <<g>>
                                  /\ UNCHANGED <<pc, result>>
    /\ UNCHANGED <<records, tree>>

Next ==
    \/ NewTree \/ RootHash \/ GenerateProof
    \/ NewBlock \/ Hash \/ Accessor \/ MineCall \/ MineLoop

Spec == Init /\ [][Next]_vars

----------------------------------------------------------------------------
(* What the claims speak of *)

\* The sizes of the levels of a tree over n >= 1 leaves: n, ceil(n/2), ..., 1.
RECURSIVE LevelSizes(_)
LevelSizes(n) == IF n <= 1 THEN <<n>> ELSE <<n>> \o LevelSizes((n + 1) \div 2)

RECURSIVE SumSeq(_)
SumSeq(q) == IF q = <<>> THEN 0 ELSE Head(q) + SumSeq(Tail(q))

\* Node j (from 1) of level k (from 1) in the level-order node list of t.
NodeAt(t, k, j) == t.nodes[SumSeq(SubSeq(LevelSizes(t.leaf_count), 1, k - 1)) + j]

\* The length of an entry of tree.nodes: each entry is one digest.
EntryLen(entry) == HashLen

\* The digest computed for the header of b.
HeaderDigest(b) ==
    sha[CHOOSE i \in 1..Len(sha) : sha[i][1] = serialize_header(b)][2]

\* The leading zero bits of a byte, and of a digest read from byte 0.
ByteLeadingZeros(b) ==
    CHOOSE z \in 0..8 : b < Pow2(8 - z) /\ (z = 8 \/ b >= Pow2(7 - z))

RECURSIVE LeadingZeroBits(_)
LeadingZeroBits(h) ==
    IF h = <<>> THEN 0
    ELSE IF Head(h) = 0 THEN 8 + LeadingZeroBits(Tail(h))
    ELSE ByteLeadingZeros(Head(h))

ValidProofCall ==
    /\ result.op = "generate_proof"
    /\ result.arg < tree[1].leaf_count

MineReturned == result.op = "mine" /\ result.status = "ok"

----------------------------------------------------------------------------
(* C1: for every non-empty batch and every valid leaf index i,              *)
(* generate_proof(i) returns a proof, and that proof verifies records[i].   *)
C1_ProofVerifiesOwnRecord ==
    ValidProofCall =>
        /\ result.status = "ok"
        /\ verify(result.value, records[result.arg + 1])

(* C2: for every valid leaf index i and every record r other than           *)
(* records[i], generate_proof(i) returns a proof that rejects r.            *)
C2_ProofRejectsOtherRecords ==
    ValidProofCall =>
        /\ result.status = "ok"
        /\ \A r \in RecordValues \ {records[result.arg + 1]} : ~verify(result.value, r)

(* C3: the stored node structure of a tree over n records is a sequence of  *)
(* levels: as many entries as levels, entry k holding the digests of level  *)
(* k (n, then half rounded up each time, down to 1); 3 entries of sizes     *)
(* 4, 2, 1 for 4 records.                                                   *)
C3_NodesAreLevels ==
    tree # <<>> =>
        LET sizes == LevelSizes(tree[1].leaf_count)
        IN  /\ Len(tree[1].nodes) = Len(sizes)
            /\ \A k \in 1..Len(sizes) : EntryLen(tree[1].nodes[k]) = sizes[k]

(* C4: whenever mine(d) returns, the hash of the block at its final nonce   *)
(* has at least d leading zero bits, read from byte 0.                      *)
C4_MinedHashMeetsTarget ==
    MineReturned =>
        LeadingZeroBits(HeaderDigest(block[1])) >= result.arg.difficulty

(* C5: mine raises nothing: no call of mine ends in a panic.                *)
C5_MineNeverPanics == ~(result.op = "mine" /\ result.status = "panic")

(* C6: mine(0) returns after exactly one hash computation whatever the      *)
(* nonce: its first iteration accepts, and the nonce is left as it was.     *)
C6_MineZeroOneHash ==
    [][(pc = "mine" /\ frame[1].difficulty = 0) =>
          /\ frame[1].hashes = 0
          /\ pc' = "idle"
          /\ result'.op = "mine" /\ result'.status = "ok"
          /\ result'.arg.hashes = 1
          /\ block' = block
          /\ block'[1].header.nonce = frame[1].start]_vars

C6_Witness ==
    /\ MineReturned
    /\ result.arg.difficulty = 0
    /\ result.arg.start > 0

(* C7: header.merkle_root is the root of the block's own tree in every      *)
(* state; a step of mine changes nothing of the block but header.nonce;     *)
(* hash and the accessors change nothing of it.                             *)
C7_RootAndFrame ==
    /\ [](block # <<>> => block[1].header.merkle_root = root_hash(block[1].merkle_tree))
    /\ [][block # <<>> =>
            /\ block' # <<>>
            /\ block'[1].header.version = block[1].header.version
            /\ block'[1].header.prev_block_hash = block[1].header.prev_block_hash
            /\ block'[1].header.merkle_root = block[1].header.merkle_root
            /\ block'[1].transactions = block[1].transactions
            /\ block'[1].merkle_tree = block[1].merkle_tree
            /\ (pc # "mine" => block' = block)]_vars

C7_Witness ==
    /\ MineReturned
    /\ block[1].header.nonce > 0
    /\ Len(block[1].transactions) > 1

(* C8: a violated precondition is a panic at the call and yields no value:  *)
(* MerkleTree::new and Block::new on an empty batch build nothing, and      *)
(* generate_proof(i) with i >= leaf count fails on its index test and       *)
(* leaves the tree as it was.                                               *)
C8_PreconditionErrors ==
    [][/\ (result'.op = "MerkleTree::new" /\ result'.arg = <<>>) =>
            /\ result'.status = "panic"
            /\ result'.msg = "Cannot create Merkle tree from empty data"
            /\ tree' = <<>>
       /\ (result'.op = "Block::new" /\ result'.arg = <<>>) =>
            /\ result'.status = "panic"
            /\ result'.msg = "Cannot create Merkle tree from empty data"
            /\ block' = <<>>
       /\ (result'.op = "generate_proof" /\ result'.arg >= tree[1].leaf_count) =>
            /\ result'.status = "panic"
            /\ result'.msg = "Leaf index out of bounds"
            /\ tree' = tree]_vars

C8_Witness ==
    /\ result.op = "generate_proof"
    /\ result.status = "panic"
    /\ result.arg = tree[1].leaf_count

(* C9: each level is built from the one below by promoting an unpaired last *)
(* node unchanged: node j of the next level is the hash of nodes 2j, 2j+1   *)
(* concatenated when both exist, and node 2j itself when it is the last;    *)
(* the root is the one node of the last level.                              *)
PromoteOdd(t, recs) ==
    LET sizes == LevelSizes(t.leaf_count)
    IN  /\ t.leaf_count = Len(recs)
        /\ Len(t.nodes) = SumSeq(sizes)
        /\ \A i \in 1..Len(recs) : NodeAt(t, 1, i) = hash(recs[i])
        /\ \A k \in 1..(Len(sizes) - 1) : \A j \in 1..sizes[k + 1] :
             NodeAt(t, k + 1, j) =
                IF 2 * j <= sizes[k]
                THEN hash(NodeAt(t, k, 2 * j - 1) \o NodeAt(t, k, 2 * j))
                ELSE NodeAt(t, k, 2 * j - 1)
        /\ sizes[Len(sizes)] = 1
        /\ root_hash(t) = NodeAt(t, Len(sizes), 1)
        /\ Len(recs) = 1 => root_hash(t) = hash(recs[1])
        /\ Len(recs) = 3 =>
             root_hash(t) = hash(hash(hash(recs[1]) \o hash(recs[2])) \o hash(recs[3]))

C9_PromoteOddLevels ==
    /\ tree # <<>> => PromoteOdd(tree[1], records)
    /\ block # <<>> => PromoteOdd(block[1].merkle_tree, block[1].transactions)

C9_Witness ==
    /\ tree # <<>>
    /\ tree[1].leaf_count = 5
    /\ result.op = "root_hash"

(* C10: during mine the nonce only ever increases, by exactly 1 for each    *)
(* rejected hash; when mine returns, the final nonce n is at least the      *)
(* starting nonce n0, every nonce from n0 to n - 1 was rejected, and        *)
(* n - n0 + 1 hashes were computed.                                         *)
C10_NonceCountsUp ==
    /\ [][pc = "mine" =>
            \/ /\ pc' = "idle"
               /\ block'[1].header.nonce = block[1].header.nonce
            \/ /\ pc' = "mine"
               /\ block'[1].header.nonce = block[1].header.nonce + 1]_vars
    /\ [](MineReturned =>
            LET n  == block[1].header.nonce
                n0 == result.arg.start
                d  == result.arg.difficulty
            IN  /\ n >= n0
                /\ result.arg.hashes = n - n0 + 1
                /\ \A m \in n0..(n - 1) :
                     MeetsDifficulty(HeaderDigest(WithNonce(block[1], m)),
                                     d, d % 8, Mask(d % 8)) = "false")

=============================================================================
